---- MODULE Spec2Model ----
(***************************************************************************)
(* A model of the sfdoc publish pipeline: the RQ jobs of                   *)
(* sfdoc/publish/tasks.py (process_webhook, process_queue, process_bundle, *)
(* publish_drafts) running on a pool of workers that share one FIFO queue, *)
(* and Salesforce.process_article of sfdoc/publish/salesforce.py.          *)
(***************************************************************************)
EXTENDS Integers, Sequences, FiniteSets, TLC

(***************************************************************************)
(* Bounds of the model.                                                    *)
(***************************************************************************)
\* how many webhooks the authoring tool posts in one behaviour
MaxWebhooks == 2
\* how many times an operator presses "publish" in one behaviour
MaxTriggers == 2

(***************************************************************************)
(* Status values of the Bundle, Webhook, Article and Image models.         *)
(***************************************************************************)
STATUS_QUEUED == "queued"
STATUS_PROCESSING == "processing"
STATUS_DRAFT == "draft"
STATUS_PUBLISHING == "publishing"
STATUS_PUBLISHED == "published"
STATUS_ERROR == "error"
\* no row of the bundle table has this easydita_id yet
Absent == "absent"

STATUS_NEW == "new"
STATUS_ACCEPTED == "accepted"
STATUS_REJECTED == "rejected"

ActiveStatuses == {STATUS_PROCESSING, STATUS_DRAFT, STATUS_PUBLISHING}

\* primary keys of the bundles the authoring tool can announce; bundle pk
\* i carries easydita_id i
BundlePks == {1, 2}

\* the worker pool
Workers == {"w1", "w2"}

(***************************************************************************)
(* Webhook payloads.  A field the JSON object lacks is "absent".           *)
(*   event_id     data['event_id']                                         *)
(*   result       data['event_data']['publish-result']                     *)
(*   uuid         data['event_data']['output-uuid'] (0: absent)            *)
(*   resource_id  whether data['resource_id'] is there                     *)
(***************************************************************************)
EventComplete == "dita-ot-publish-complete"

Payload(e, r, u, res) == [event_id |-> e, result |-> r, uuid |-> u, resource_id |-> res]

\* the payloads posted: a finished publish of either bundle, a failed one,
\* another event, and objects that lack a field
WebhookBodies ==
    {Payload(EventComplete, "success", b, TRUE) : b \in BundlePks}
    \cup {Payload(EventComplete, "failure", 1, TRUE),
          Payload("other-event", "success", 1, TRUE),
          Payload("other-event", "absent", 0, TRUE),
          Payload("absent", "absent", 0, TRUE),
          Payload(EventComplete, "absent", 1, TRUE),
          Payload(EventComplete, "success", 0, TRUE),
          Payload(EventComplete, "success", 1, FALSE)}

(***************************************************************************)
(* Names.  str.lower(), os.path.basename and sorted() on the strings the   *)
(* model uses.                                                             *)
(***************************************************************************)
None == "none"

\* every string the model compares or sorts, in Python's string order
NameOrder == <<"FAQ", "Logo.png", "a.html", "b.html", "d1/fig.png", "d1/logo.png",
               "d2/Logo.png", "faq", "fig.png", "guide", "logo.png">>

Rank(s) == CHOOSE i \in 1..Len(NameOrder) : NameOrder[i] = s

\* str.lower()
Lower(s) ==
    CASE s = "FAQ" -> "faq"
      [] s = "Logo.png" -> "logo.png"
      [] OTHER -> s

\* os.path.basename of an image path of the unpacked bundle
Basename(image) ==
    CASE image = "d1/fig.png" -> "fig.png"
      [] image = "d1/logo.png" -> "logo.png"
      [] image = "d2/Logo.png" -> "Logo.png"

RECURSIVE SortBy(_, _)
\* sorted(S), where r[x] is the position of x in the order
SortBy(S, r) ==
    IF S = {} THEN <<>>
    ELSE CHOOSE sq \in {<<m>> \o SortBy(S \ {m}, r) :
                          m \in {CHOOSE x \in S : \A y \in S : r[x] <= r[y]}} : TRUE

\* sorted() of a set of strings
Sorted(S) == SortBy(S, [x \in S |-> Rank(x)])

(***************************************************************************)
(* An HTML file of the bundle after HTML(html_raw): its path, url_name,    *)
(* the article fields compared by same_as_record, and its image paths.     *)
(***************************************************************************)
HtmlFile(p, u, c, imgs) == [path |-> p, url_name |-> u, body |-> c, images |-> imgs]

(***************************************************************************)
(* The article store (Salesforce Knowledge), one entry per article, keyed  *)
(* by the lower-cased UrlName: the UrlName as stored, the number of        *)
(* versions made so far, and the draft and online versions [id, body].     *)
(* The body stands for all the fields same_as_record compares.             *)
(***************************************************************************)
Slugs == {"faq", "guide"}
NoVersion == [id |-> 0, body |-> None]
Version(i, c) == [id |-> i, body |-> c]
NoArticle == [url_name |-> None, vers |-> 0, draft |-> NoVersion,
              online |-> NoVersion, archived |-> FALSE]

\* Salesforce.query_articles: the matching version, NoVersion when totalSize is 0
query_articles(store, url_name, publish_status) ==
    IF publish_status = "draft" THEN store[Lower(url_name)].draft
    ELSE store[Lower(url_name)].online

\* Salesforce.get_articles('online'): the online versions with their UrlName
get_articles(store) == {k \in Slugs : store[k].online # NoVersion}

\* HTML.same_as_record: every compared field of the record equals the document's
same_as_record(html, record) == html.body = record.body

(***************************************************************************)
(* In the definitions below, CHOOSE x \in {F(v) : v \in {e}} : TRUE is F(e) *)
(* with e computed once.                                                   *)
(***************************************************************************)

(***************************************************************************)
(* What a job run does to the stores and tables, one effect per store call *)
(* or row created, in program order.  A run that fails at its n-th call    *)
(* has made the effects before it.                                         *)
(***************************************************************************)
Eff(op, slug, id, name, body, status) ==
    [op |-> op, slug |-> slug, id |-> id, name |-> name,
     body |-> body, status |-> status]

\* the calls that change the article store or the object store
MutatingOps == {"create_article", "create_draft", "update_draft", "upload_image",
                "publish_draft", "copy_to_production", "delete_draft", "archive",
                "delete_image"}

\* Salesforce.create_article: a new article with a draft version
create_article(store, e) ==
    [store EXCEPT ![e.slug] = [url_name |-> e.name, vers |-> e.id,
                               draft |-> Version(e.id, e.body),
                               online |-> NoVersion, archived |-> @.archived]]

\* Salesforce.create_draft: a draft copy of the online version
create_draft(store, e) ==
    [store EXCEPT ![e.slug].vers = e.id,
                  ![e.slug].draft = Version(e.id, store[e.slug].online.body)]

\* Salesforce.update_draft: the fields of the draft are those of the document
update_draft(store, e) ==
    [store EXCEPT ![e.slug].draft = Version(e.id, e.body)]

\* Salesforce.save_article: the Article row of a processed document
SaveArticleEff(html, kav, status) ==
    Eff("article_record", Lower(html.url_name), kav, html.url_name, html.body, status)

\* process_article with the statuses of the draft-exists branch swapped
process_article_swapped(store, html) ==
    LET k == Lower(html.url_name)
        result_draft == query_articles(store, html.url_name, "draft")
        result_online == query_articles(store, html.url_name, "online")
        fresh == store[k].vers + 1
    IN  IF result_draft # NoVersion
        THEN <<Eff("update_draft", k, result_draft.id, html.url_name, html.body, None),
               SaveArticleEff(html, result_draft.id,
                   IF result_online # NoVersion THEN "new" ELSE "changed")>>
        ELSE IF result_online = NoVersion
        THEN <<Eff("create_article", k, fresh, html.url_name, html.body, None),
               SaveArticleEff(html, fresh, "new")>>
        ELSE IF same_as_record(html, result_online)
        THEN <<>>
        ELSE <<Eff("create_draft", k, fresh, html.url_name, None, None),
               Eff("update_draft", k, fresh, html.url_name, html.body, None),
               SaveArticleEff(html, fresh, "changed")>>

\* process_article without the same_as_record check
process_article_always_drafts(store, html) ==
    LET k == Lower(html.url_name)
        result_draft == query_articles(store, html.url_name, "draft")
        result_online == query_articles(store, html.url_name, "online")
        fresh == store[k].vers + 1
    IN  IF result_draft # NoVersion
        THEN <<Eff("update_draft", k, result_draft.id, html.url_name, html.body, None),
               SaveArticleEff(html, result_draft.id,
                   IF result_online # NoVersion THEN "changed" ELSE "new")>>
        ELSE IF result_online = NoVersion
        THEN <<Eff("create_article", k, fresh, html.url_name, html.body, None),
               SaveArticleEff(html, fresh, "new")>>
        ELSE <<Eff("create_draft", k, fresh, html.url_name, None, None),
               Eff("update_draft", k, fresh, html.url_name, html.body, None),
               SaveArticleEff(html, fresh, "changed")>>

\* Salesforce.process_article(html, bundle): the calls it makes on this store
process_article(store, html) ==
    LET k == Lower(html.url_name)
        result_draft == query_articles(store, html.url_name, "draft")
        result_online == query_articles(store, html.url_name, "online")
        fresh == store[k].vers + 1
    IN  IF result_draft # NoVersion
        THEN <<Eff("update_draft", k, result_draft.id, html.url_name, html.body, None),
               SaveArticleEff(html, result_draft.id,
                   IF result_online # NoVersion THEN "changed" ELSE "new")>>
        ELSE IF result_online = NoVersion
        THEN <<Eff("create_article", k, fresh, html.url_name, html.body, None),
               SaveArticleEff(html, fresh, "new")>>
        ELSE IF same_as_record(html, result_online)
        THEN <<>>
        ELSE <<Eff("create_draft", k, fresh, html.url_name, None, None),
               Eff("update_draft", k, fresh, html.url_name, html.body, None),
               SaveArticleEff(html, fresh, "changed")>>

(***************************************************************************)
(* The object store (S3).  A key is its name and whether it starts with    *)
(* settings.AWS_S3_DRAFT_DIR.                                              *)
(***************************************************************************)
Key(d, n) == [draft |-> d, name |-> n]
DraftKey(n) == Key(TRUE, n)
ProductionKey(n) == Key(FALSE, n)

\* S3.delete_draft_images: every key under the draft prefix is deleted
delete_draft_images(keys) == {k \in keys : ~k.draft}

\* S3.process_image(image, bundle): the image is uploaded under the draft
\* prefix; it is NEW when production has no key of that name, else CHANGED
process_image(keys, image) ==
    LET name == Basename(image)
        live == {Lower(k.name) : k \in {x \in keys : ~x.draft}}
    IN  <<Eff("upload_image", None, 0, name, None, None),
          Eff("image_record", None, 0, name, None,
              IF Lower(name) \in live THEN "changed" ELSE "new")>>

(***************************************************************************)
(* _process_bundle(bundle, path)                                           *)
(***************************************************************************)
\* url_map keyed by the url_name as declared
url_map_as_declared(files) ==
    [k \in {f.url_name : f \in files} |->
        {f.path : f \in {g \in files : g.url_name = k}}]

\* url_map: lower-cased url_name -> the HTML files that declare it
url_map(files) ==
    [k \in {Lower(f.url_name) : f \in files} |->
        {f.path : f \in {g \in files : Lower(g.url_name) = k}}]

\* images: every image path some HTML file refers to
AllImages(files) == UNION {f.images : f \in files}

\* image_map: lower-cased basename -> the image paths that have it
image_map(imgs) ==
    [n \in {Lower(Basename(i)) : i \in imgs} |->
        {i \in imgs : Lower(Basename(i)) = n}]

RECURSIVE ReportEntries(_, _, _)
\* the lines of an error message: for each name in order, unless skipped
\* for having one file only, the name and its files in order
ReportEntries(names, map, skipSingles) ==
    IF names = <<>> THEN <<>>
    ELSE LET n == Head(names)
             rest == ReportEntries(Tail(names), map, skipSingles)
         IN  IF skipSingles /\ Cardinality(map[n]) = 1 THEN rest
             ELSE <<[name |-> n, files |-> Sorted(map[n])]>> \o rest

NoReport == [kind |-> None, entries |-> <<>>]

\* the duplicate checks without the one for image filenames
DuplicateReportUrlNamesOnly(files) ==
    LET um == url_map(files)
    IN  IF \E k \in DOMAIN um : Cardinality(um[k]) > 1
        THEN [kind |-> "url_name",
              entries |-> ReportEntries(Sorted(DOMAIN um), um, TRUE)]
        ELSE NoReport

\* the SfdocError of the two duplicate checks, NoReport when neither raises
DuplicateReport(files) ==
    LET um == url_map(files)
        im == image_map(AllImages(files))
    IN  IF \E k \in DOMAIN um : Cardinality(um[k]) > 1
        THEN [kind |-> "url_name",
              entries |-> ReportEntries(Sorted(DOMAIN um), um, TRUE)]
        ELSE IF \E n \in DOMAIN im : Cardinality(im[n]) > 1
        THEN [kind |-> "image",
              entries |-> ReportEntries(Sorted(DOMAIN im), im, FALSE)]
        ELSE NoReport

RECURSIVE DeletedArticles(_, _, _)
\* DeletedArticles comparing the UrlName as stored, without lower-casing it
DeletedArticlesCaseSensitive(slugs, store, um) ==
    LET gone == SelectSeq(slugs, LAMBDA k : store[k].url_name \notin DOMAIN um)
    IN  [i \in 1..Len(gone) |->
            Eff("article_record", gone[i], store[gone[i]].online.id,
                store[gone[i]].url_name, None, "deleted")]

\* the Article rows of the online articles no incoming document names
DeletedArticles(slugs, store, um) ==
    IF slugs = <<>> THEN <<>>
    ELSE LET k == Head(slugs)
             rest == DeletedArticles(Tail(slugs), store, um)
         IN  IF Lower(store[k].url_name) \notin DOMAIN um
             THEN <<Eff("article_record", k, store[k].online.id,
                        store[k].url_name, None, "deleted")>> \o rest
             ELSE rest

\* DeletedImages without the test for the draft prefix
DeletedImagesWithDrafts(keys, im) ==
    LET gone == {k.name : k \in {x \in keys : Lower(x.name) \notin DOMAIN im}}
        names == Sorted(gone)
    IN  [i \in 1..Len(names) |->
            Eff("image_record", None, 0, names[i], None, "deleted")]

\* the Image rows of the production keys no incoming image is named like
DeletedImages(keys, im) ==
    LET gone == {k.name : k \in {x \in keys :
                    ~x.draft /\ Lower(x.name) \notin DOMAIN im}}
        names == Sorted(gone)
    IN  [i \in 1..Len(names) |->
            Eff("image_record", None, 0, names[i], None, "deleted")]

\* Article.objects.create and Image.objects.create
ArticleRow(run, e) ==
    [run |-> run, url_name |-> e.name, ka_id |-> e.slug, kav_id |-> e.id,
     status |-> e.status]
ImageRow(run, e) == [run |-> run, filename |-> e.name, status |-> e.status]

\* the stores and the rows of one bundle, as a job run sees them
State(store, keys, arts, imgs) ==
    [kb |-> store, s3 |-> keys, arts |-> arts, imgs |-> imgs]

\* one effect applied
ApplyEffect(S, e, run) ==
    CASE e.op = "create_article" -> [S EXCEPT !.kb = create_article(S.kb, e)]
      [] e.op = "create_draft" -> [S EXCEPT !.kb = create_draft(S.kb, e)]
      [] e.op = "update_draft" -> [S EXCEPT !.kb = update_draft(S.kb, e)]
      [] e.op = "upload_image" -> [S EXCEPT !.s3 = @ \cup {DraftKey(e.name)}]
      [] e.op = "article_record" -> [S EXCEPT !.arts = @ \cup {ArticleRow(run, e)}]
      [] e.op = "image_record" -> [S EXCEPT !.imgs = @ \cup {ImageRow(run, e)}]
      [] e.op = "publish_draft" ->
            [S EXCEPT !.kb[e.slug].online = S.kb[e.slug].draft,
                      !.kb[e.slug].draft = NoVersion]
      [] e.op = "copy_to_production" -> [S EXCEPT !.s3 = @ \cup {ProductionKey(e.name)}]
      [] e.op = "delete_draft" -> [S EXCEPT !.kb[e.slug].draft = NoVersion]
      [] e.op = "archive" ->
            [S EXCEPT !.kb[e.slug].online = NoVersion,
                      !.kb[e.slug].archived = TRUE]
      [] e.op = "delete_image" -> [S EXCEPT !.s3 = @ \ {ProductionKey(e.name)}]
      [] OTHER -> S

RECURSIVE ApplyEffects(_, _, _)
\* the effects applied in order
ApplyEffects(S, effs, run) ==
    IF effs = <<>> THEN S
    ELSE ApplyEffects(ApplyEffect(S, Head(effs), run), Tail(effs), run)

\* the first n of the effects
Prefix(effs, n) == SubSeq(effs, 1, n)

\* the mutating store calls among the effects
MutatingCalls(effs) == SelectSeq(effs, LAMBDA e : e.op \in MutatingOps)

RECURSIVE ProcessArticles(_, _)
\* the loop over html_files calling salesforce.process_article
ProcessArticles(files, store) ==
    IF files = <<>> THEN <<>>
    ELSE CHOOSE all \in
            {effs \o ProcessArticles(Tail(files),
                                     ApplyEffects(State(store, {}, {}, {}), effs, 0).kb) :
                effs \in {process_article(store, Head(files))}} : TRUE

RECURSIVE ProcessImages(_, _)
\* the loop over images calling s3.process_image
ProcessImages(imgs, keys) ==
    IF imgs = <<>> THEN <<>>
    ELSE CHOOSE all \in
            {effs \o ProcessImages(Tail(imgs),
                                   ApplyEffects(State(<<>>, keys, {}, {}), effs, 0).s3) :
                effs \in {process_image(keys, Head(imgs))}} : TRUE

\* html_files in the order they are walked
HtmlFilesSeq(files) ==
    LET paths == Sorted({f.path : f \in files})
    IN  [i \in 1..Len(paths) |-> CHOOSE f \in files : f.path = paths[i]]

\* article_image_map: url_name -> the images of the document
article_image_map(files) ==
    [u \in {f.url_name : f \in files} |->
        UNION {f.images : f \in {g \in files : g.url_name = u}}]

\* the draft rows of the bundle whose url_name article_image_map lacks
MissingInImageMap(S, files) ==
    {a \in S.arts : a.status \in {"new", "changed"}
                    /\ a.url_name \notin DOMAIN article_image_map(files)}

\* unchanged_images: images of draft articles with no Image row of that name
unchanged_images(S, files) ==
    LET aim == article_image_map(files)
        used == UNION {aim[a.url_name] :
                    a \in {x \in S.arts : x.status \in {"new", "changed"}}}
    IN  {i \in used : ~\E r \in S.imgs : r.filename = Basename(i)}

UploadUnchanged(imgs) ==
    [i \in 1..Len(imgs) |-> Eff("upload_image", None, 0, Basename(imgs[i]), None, None)]

\* lines 104-150: rows of deleted articles and images, then the documents
\* and the images are processed
StageEffects(S, files) ==
    CHOOSE stage \in
        {DeletedArticles(online, S.kb, um) \o DeletedImages(S.s3, im)
         \o ProcessArticles(html_files, S.kb) \o ProcessImages(imgs, S.s3) :
            online \in {Sorted(get_articles(S.kb))},
            um \in {url_map(files)},
            im \in {image_map(AllImages(files))},
            html_files \in {HtmlFilesSeq(files)},
            imgs \in {Sorted(AllImages(files))}} : TRUE

\* lines 151-168: the images of draft articles that have no Image row are
\* uploaded as they are; nothing is uploaded when the lookup raises
Uploads(S1, files) ==
    IF MissingInImageMap(S1, files) # {} THEN <<>>
    ELSE UploadUnchanged(Sorted(unchanged_images(S1, files)))

\* the effects of a run in which no call fails: those of lines 104-150,
\* then the uploads on the rows they left
PlanOf(S, files, run, stage) ==
    CHOOSE plan \in {stage \o Uploads(S1, files) :
                        S1 \in {ApplyEffects(S, stage, run)}} : TRUE
Plan(S, files, run) ==
    CHOOSE plan \in {PlanOf(S, files, run, stage) :
                        stage \in {StageEffects(S, files)}} : TRUE

\* the result of a run: the stores and rows after, the effects made, and
\* what was raised
Outcome(state, effs, kind, entries) ==
    [state |-> state, effects |-> effs,
     report |-> [kind |-> kind, entries |-> entries]]

\* Ending without the check of lines 169-171
EndingWithoutCheck(S2, files) ==
    IF MissingInImageMap(S2, files) # {} THEN "KeyError" ELSE None

\* lines 154-174: how a run that made every call ends
Ending(S2, files) ==
    IF MissingInImageMap(S2, files) # {} THEN "KeyError"
    ELSE IF S2.arts = {} /\ S2.imgs = {} THEN "nothing_changed"
    ELSE None

Complete(S2, plan, files) == Outcome(S2, plan, Ending(S2, files), <<>>)

Interrupted(S, run, done) == Outcome(ApplyEffects(S, done, run), done, "fault", <<>>)

Finish(S, files, run, fault, dup, plan) ==
    IF fault = 0 THEN Outcome(S, <<>>, "fault", <<>>)
    ELSE IF dup # NoReport THEN Outcome(S, <<>>, dup.kind, dup.entries)
    ELSE IF fault <= Len(plan) THEN Interrupted(S, run, Prefix(plan, fault - 1))
    ELSE CHOOSE out \in {Complete(S2, plan, files) :
                            S2 \in {ApplyEffects(S, plan, run)}} : TRUE

\* _process_bundle on the stores S.  fault 0: the download fails; fault n:
\* the call of the n-th effect fails or the timeout strikes there, the
\* effects before it are made; a fault beyond the last effect: none.
_process_bundle(S, files, run, fault) ==
    CHOOSE out \in {Finish(S, files, run, fault, dup, plan) :
                        dup \in {DuplicateReport(files)},
                        plan \in {Plan(S, files, run)}} : TRUE

\* the fault positions of a run
Faults(S, files) == 0 .. (Len(StageEffects(S, files)) + Cardinality(AllImages(files)) + 1)

(***************************************************************************)
(* _publish_drafts(bundle)                                                 *)
(***************************************************************************)
Raise(what, name) == Eff("raise", None, 0, name, None, what)

\* Salesforce.publish_draft(kav_id): the draft body is pushed and the
\* version goes online; the store rejects an id that is not the draft
publish_draft(S, a) ==
    IF S.kb[a.ka_id].draft.id = a.kav_id /\ a.kav_id # 0
    THEN <<Eff("publish_draft", a.ka_id, a.kav_id, a.url_name, None, None)>>
    ELSE <<Raise("SalesforceError", a.url_name)>>

\* S3.copy_to_production(filename): the draft object is copied to its
\* production key; the store rejects a source key that is not there
copy_to_production(S, i) ==
    IF DraftKey(i.filename) \in S.s3
    THEN <<Eff("copy_to_production", None, 0, i.filename, None, None)>>
    ELSE <<Raise("ClientError", i.filename)>>

\* archive setting the publish status before it deletes the draft
archive_status_first(S, a) ==
    (IF S.kb[a.ka_id].online.id = a.kav_id /\ a.kav_id # 0
     THEN <<Eff("archive", a.ka_id, a.kav_id, a.url_name, None, None)>>
     ELSE <<>>)
    \o (IF S.kb[a.ka_id].draft # NoVersion
        THEN <<Eff("delete_draft", a.ka_id, S.kb[a.ka_id].draft.id, a.url_name, None, None)>>
        ELSE <<>>)

\* Salesforce.archive(ka_id, kav_id): a draft of the article is deleted
\* first, then the online version is archived
archive(S, a) ==
    (IF S.kb[a.ka_id].draft # NoVersion
     THEN <<Eff("delete_draft", a.ka_id, S.kb[a.ka_id].draft.id, a.url_name, None, None)>>
     ELSE <<>>)
    \o (IF S.kb[a.ka_id].online.id = a.kav_id /\ a.kav_id # 0
        THEN <<Eff("archive", a.ka_id, a.kav_id, a.url_name, None, None)>>
        ELSE <<Raise("SalesforceError", a.url_name)>>)

\* S3.delete(filename)
delete_image(S, i) == <<Eff("delete_image", None, 0, i.filename, None, None)>>

\* the place of a row in the order of its table: by run, then by name
RowRank(run, name) == run * (Len(NameOrder) + 1) + Rank(name)

\* the store call of one of the four loops on one row
PublishCall(S, row, loop) ==
    CASE loop = "publish" -> publish_draft(S, row)
      [] loop = "copy" -> copy_to_production(S, row)
      [] loop = "archive" -> archive(S, row)
      [] loop = "delete" -> delete_image(S, row)

Raises(effs) == effs # <<>> /\ effs[Len(effs)].op = "raise"

RECURSIVE PublishLoop(_, _, _)
\* one loop of _publish_drafts over its rows; once a call raises, nothing
\* follows it
PublishLoop(S, rows, loop) ==
    IF rows = <<>> THEN <<>>
    ELSE CHOOSE all \in
            {IF Raises(effs) THEN effs
             ELSE effs \o PublishLoop(ApplyEffects(S, effs, 0), Tail(rows), loop) :
                effs \in {PublishCall(S, Head(rows), loop)}} : TRUE

\* the next loop after the effects made so far: skipped once a call raised
ThenLoop(S, made, rows, loop) ==
    IF Raises(made) THEN made
    ELSE CHOOSE all \in {made \o PublishLoop(S1, rs, loop) :
                            S1 \in {ApplyEffects(S, made, 0)}, rs \in {rows}} : TRUE

\* bundle.articles.filter(...).all() and bundle.images.filter(...).all()
ArticleRows(S, statuses) ==
    SortBy({a \in S.arts : a.status \in statuses},
           [a \in S.arts |-> RowRank(a.run, a.url_name)])
ImageRows(S, statuses) ==
    SortBy({i \in S.imgs : i.status \in statuses},
           [i \in S.imgs |-> RowRank(i.run, i.filename)])

\* the four loops with the archive loop first
PublishEffectsArchiveFirst(S) ==
    CHOOSE l4 \in
        {ThenLoop(S, l3, ImageRows(S, {"deleted"}), "delete") : l3 \in
            {ThenLoop(S, l2, ImageRows(S, {"new", "changed"}), "copy") : l2 \in
                {ThenLoop(S, l1, ArticleRows(S, {"new", "changed"}), "publish") : l1 \in
                    {ThenLoop(S, <<>>, ArticleRows(S, {"deleted"}), "archive")}}}} : TRUE

\* the four loops in program order
PublishEffects(S) ==
    CHOOSE l4 \in
        {ThenLoop(S, l3, ImageRows(S, {"deleted"}), "delete") : l3 \in
            {ThenLoop(S, l2, ArticleRows(S, {"deleted"}), "archive") : l2 \in
                {ThenLoop(S, l1, ImageRows(S, {"new", "changed"}), "copy") : l1 \in
                    {ThenLoop(S, <<>>, ArticleRows(S, {"new", "changed"}), "publish")}}}} : TRUE

\* the result of _publish_drafts: the calls before the one that raised
PublishResult(S, made, kind) ==
    [state |-> ApplyEffects(S, made, 0), effects |-> made,
     report |-> [kind |-> kind, entries |-> <<>>]]

\* the result when the exception of a call is swallowed
PublishMadeSwallowed(S, faulted, done) ==
    PublishResult(S, IF Raises(done) THEN Prefix(done, Len(done) - 1) ELSE done, None)

PublishMade(S, faulted, done) ==
    PublishResult(S,
        IF Raises(done) THEN Prefix(done, Len(done) - 1) ELSE done,
        IF Raises(done) THEN done[Len(done)].status
        ELSE IF faulted THEN "fault" ELSE None)

PublishOutcome(S, fault, plan) ==
    CHOOSE out \in {PublishMade(S, fault <= Len(plan), done) :
                        done \in {IF fault > Len(plan) THEN plan
                                  ELSE Prefix(plan, fault - 1)}} : TRUE

\* _publish_drafts on the stores S, with a fault as in _process_bundle
_publish_drafts(S, fault) ==
    CHOOSE out \in {PublishOutcome(S, fault, plan) : plan \in {PublishEffects(S)}} : TRUE

PublishFaults(S) == 1 .. (Len(PublishEffects(S)) + 1)

VARIABLES
    incoming,   \* the archive the authoring tool serves per bundle: HTML files
    kb,         \* the article store: slug -> [url_name, draft, online, archived]
    s3,         \* the object store: set of keys [draft, name]
    articles,   \* the Article table: pk of bundle -> set of records
    images,     \* the Image table: pk of bundle -> set of records
    calls,      \* the mutating store calls of the job step taken last
    report,     \* the SfdocError raised by the _process_bundle run taken last
    bundle,     \* the bundle table: pk -> [status, time_queued], with the
                \* number of times the bundle was queued, was claimed by
                \* process_bundle, was run by _process_bundle, and was set
                \* PUBLISHED with its time_published
    webhooks,   \* the webhook table: sequence of [body, status, bundle]
    rq,         \* the RQ queue 'default': sequence of [fn, arg]
    worker,     \* what each worker is running: [fn, arg, pc]
    failed,     \* RQ's failed-job registry: jobs that ended in an exception
    clock,      \* now(), as the number of Bundle.queue() calls so far
    triggers    \* number of publish triggers so far

stores == <<kb, s3, articles, images, calls, report>>
vars == <<incoming, kb, s3, articles, images, calls, report,
          bundle, webhooks, rq, worker, failed, clock, triggers>>

Idle == [fn |-> "idle", arg |-> 0, pc |-> 0]
Job(f, a) == [fn |-> f, arg |-> a]
Running(j, p) == [fn |-> j.fn, arg |-> j.arg, pc |-> p]

\* what the stores hold and the authoring tool serves when the pipeline
\* starts: one article online, one image in production; bundle 1 is a
\* changed "faq" with a new image, bundle 2 declares url_name FAQ twice
InitStores ==
    /\ kb = [k \in Slugs |->
                IF k = "faq"
                THEN [url_name |-> "faq", vers |-> 1, draft |-> NoVersion,
                      online |-> Version(1, "v1"), archived |-> FALSE]
                ELSE NoArticle]
    /\ s3 = {ProductionKey("fig.png")}
    /\ articles = [b \in BundlePks |-> {}]
    /\ images = [b \in BundlePks |-> {}]
    /\ calls = <<>>
    /\ report = NoReport

InitPipeline ==
    /\ bundle = [b \in BundlePks |-> [status |-> Absent, time_queued |-> 0, runs |-> 0,
                                    queued |-> 0, claims |-> 0, published |-> 0]]
    /\ webhooks = <<>>
    /\ rq = <<>>
    /\ worker = [w \in Workers |-> Idle]
    /\ failed = {}
    /\ clock = 0
    /\ triggers = 0

Init ==
    /\ incoming = [b \in BundlePks |->
                     IF b = 1
                     THEN {HtmlFile("a.html", "faq", "v2", {"d1/logo.png"})}
                     ELSE {HtmlFile("a.html", "faq", "v1", {}),
                           HtmlFile("b.html", "FAQ", "v1", {})}]
    /\ InitStores
    /\ InitPipeline

(***************************************************************************)
(* Queue and worker plumbing (django_rq).                                  *)
(***************************************************************************)
\* job.delay(arg): put a job at the tail of the queue
Delay(q, f, a) == Append(q, Job(f, a))

\* a free worker takes the job at the head of the queue
Dequeue(w) ==
    /\ worker[w] = Idle
    /\ rq # <<>>
    /\ worker' = [worker EXCEPT ![w] = Running(Head(rq), 0)]
    /\ rq' = Tail(rq)
    /\ UNCHANGED <<incoming, stores, bundle, webhooks, failed, clock, triggers>>

At(w, f, p) == worker[w].fn = f /\ worker[w].pc = p

(***************************************************************************)
(* Bundle model methods.                                                   *)
(***************************************************************************)
\* Bundle.is_complete()
is_complete(st) == st \in {STATUS_PUBLISHED, STATUS_ERROR}

\* Bundle.queue(): status QUEUED, time_queued now()
queue(bt, b, t) ==
    [bt EXCEPT ![b].status = STATUS_QUEUED, ![b].time_queued = t,
               ![b].queued = @ + 1]

\* Bundle.set_error(e): status ERROR (and the error text)
set_error(bt, b) == [bt EXCEPT ![b].status = STATUS_ERROR]

SetStatus(bt, b, st) == [bt EXCEPT ![b].status = st]

(***************************************************************************)
(* The webhook view: stores the payload and enqueues process_webhook.      *)
(***************************************************************************)
PostWebhook(bodies) ==
    /\ Len(webhooks) < MaxWebhooks
    /\ \E body \in bodies :
        /\ webhooks' = Append(webhooks,
                              [body |-> body, status |-> STATUS_NEW, bundle |-> 0])
        /\ rq' = Delay(rq, "process_webhook", Len(webhooks) + 1)
    /\ UNCHANGED <<incoming, stores, bundle, worker, failed, clock, triggers>>

(***************************************************************************)
(* process_webhook(pk)                                                     *)
(***************************************************************************)
\* the subscript a KeyError is raised on, or "none"
WebhookKeyError(data) ==
    IF data.event_id = "absent" THEN "event_id"
    ELSE IF data.event_id # EventComplete THEN "none"
    ELSE IF data.result = "absent" THEN "publish-result"
    ELSE IF data.result # "success" THEN "none"
    ELSE IF data.uuid = 0 THEN "output-uuid"
    ELSE IF ~data.resource_id THEN "resource_id"
    ELSE "none"

\* the condition of the outer if
WebhookIsSuccess(data) ==
    data.event_id = EventComplete /\ data.result = "success"

\* the inner if without `created`
WebhookAcceptsCompleteOnly(bt, b) == is_complete(bt[b].status)

\* the condition of the inner if: created or bundle.is_complete()
WebhookAccepts(bt, b) == bt[b].status = Absent \/ is_complete(bt[b].status)

process_webhook(w) ==
    /\ At(w, "process_webhook", 0)
    /\ LET pk == worker[w].arg
           data == webhooks[pk].body
       IN  IF WebhookKeyError(data) # "none"
           THEN \* KeyError leaves the job: nothing has been written yet
                /\ failed' = failed \cup {Job("process_webhook", pk)}
                /\ UNCHANGED <<bundle, webhooks, rq, clock>>
           ELSE IF WebhookIsSuccess(data)
           THEN LET b == data.uuid
                    \* get_or_create: a new row starts with the default status
                    got == IF bundle[b].status = Absent
                           THEN [bundle EXCEPT ![b].status = STATUS_NEW]
                           ELSE bundle
                IN  IF WebhookAccepts(bundle, b)
                    THEN /\ webhooks' = [webhooks EXCEPT ![pk].status = STATUS_ACCEPTED,
                                                         ![pk].bundle = b]
                         /\ bundle' = queue(got, b, clock + 1)
                         /\ clock' = clock + 1
                         /\ rq' = Delay(rq, "process_queue", 0)
                         /\ UNCHANGED failed
                    ELSE /\ webhooks' = [webhooks EXCEPT ![pk].status = STATUS_REJECTED,
                                                         ![pk].bundle = b]
                         /\ bundle' = got
                         /\ UNCHANGED <<rq, clock, failed>>
           ELSE /\ webhooks' = [webhooks EXCEPT ![pk].status = STATUS_REJECTED]
                /\ UNCHANGED <<bundle, rq, clock, failed>>
    /\ worker' = [worker EXCEPT ![w] = Idle]
    /\ UNCHANGED <<incoming, stores, triggers>>

(***************************************************************************)
(* process_queue()                                                         *)
(***************************************************************************)
\* process_queue with the sweep moved behind the check of lines 240-245:
\* a pass that finds a bundle active returns without sweeping
process_queue_sweep_after_check(w) ==
    /\ At(w, "process_queue", 0)
    /\ s3' = IF \E b \in BundlePks : bundle[b].status \in ActiveStatuses
             THEN s3 ELSE delete_draft_images(s3)
    /\ calls' = <<>>
    /\ report' = NoReport
    /\ worker' = [worker EXCEPT ![w].pc = 1]
    /\ UNCHANGED <<incoming, kb, articles, images, bundle, webhooks, rq, failed,
                   clock, triggers>>

\* line 239: s3.delete_draft_images()
process_queue_sweep(w) ==
    /\ At(w, "process_queue", 0)
    /\ s3' = delete_draft_images(s3)
    /\ calls' = [i \in 1..Cardinality({k \in s3 : k.draft}) |->
                    Eff("delete_draft_image", None, 0, None, None, None)]
    /\ report' = NoReport
    /\ worker' = [worker EXCEPT ![w].pc = 1]
    /\ UNCHANGED <<incoming, kb, articles, images, bundle, webhooks, rq, failed,
                   clock, triggers>>

\* the filter of lines 240-244: some bundle is being processed or published
SomeBundleActive(bt) == \E b \in BundlePks : bt[b].status \in ActiveStatuses

Queued(bt) == {b \in BundlePks : bt[b].status = STATUS_QUEUED}

\* bundles.earliest('time_queued')
Earliest(bt) ==
    CHOOSE b \in Queued(bt) : \A c \in Queued(bt) : bt[b].time_queued <= bt[c].time_queued

\* lines 240-248: the queue after the pass
Admit(bt, q) ==
    IF SomeBundleActive(bt) THEN q
    ELSE IF Queued(bt) # {} THEN Delay(q, "process_bundle", Earliest(bt))
    ELSE q

process_queue_admit(w) ==
    /\ At(w, "process_queue", 1)
    /\ rq' = Admit(bundle, rq)
    /\ worker' = [worker EXCEPT ![w] = Idle]
    /\ UNCHANGED <<incoming, stores, bundle, webhooks, failed, clock, triggers>>

(***************************************************************************)
(* process_bundle(bundle_pk)                                               *)
(***************************************************************************)
\* lines 219-222: the status the job writes before it works
Claim(bt, b) == SetStatus(bt, b, STATUS_PROCESSING)

process_bundle_start(w) ==
    /\ At(w, "process_bundle", 0)
    /\ bundle' = [Claim(bundle, worker[w].arg) EXCEPT ![worker[w].arg].claims = @ + 1]
    /\ worker' = [worker EXCEPT ![w].pc = 1]
    /\ UNCHANGED <<incoming, stores, webhooks, rq, failed, clock, triggers>>

StateOf(b) == State(kb, s3, articles[b], images[b])

\* lines 225-232: _process_bundle, and the except clause when it raises
process_bundle_run(w) ==
    /\ At(w, "process_bundle", 1)
    /\ LET b == worker[w].arg
           run == bundle[b].runs + 1
       IN  \E fault \in Faults(StateOf(b), incoming[b]) :
             \E r \in {_process_bundle(StateOf(b), incoming[b], run, fault)} :
                 /\ kb' = r.state.kb
                 /\ s3' = r.state.s3
                 /\ articles' = [articles EXCEPT ![b] = r.state.arts]
                 /\ images' = [images EXCEPT ![b] = r.state.imgs]
                 /\ calls' = MutatingCalls(r.effects)
                 /\ report' = r.report
                 /\ IF r.report.kind = None
                    THEN /\ bundle' = [SetStatus(bundle, b, STATUS_DRAFT)
                                          EXCEPT ![b].runs = run]
                         /\ UNCHANGED <<rq, failed>>
                    ELSE /\ bundle' = [set_error(bundle, b) EXCEPT ![b].runs = run]
                         /\ rq' = Delay(rq, "process_queue", 0)
                         /\ failed' = failed \cup {Job("process_bundle", b)}
    /\ worker' = [worker EXCEPT ![w] = Idle]
    /\ UNCHANGED <<incoming, webhooks, clock, triggers>>

(***************************************************************************)
(* publish_drafts(bundle_pk), and the view that enqueues it for a bundle   *)
(* in DRAFT.                                                               *)
(***************************************************************************)
TriggerPublish ==
    /\ triggers < MaxTriggers
    /\ \E b \in BundlePks :
        /\ bundle[b].status = STATUS_DRAFT
        /\ rq' = Delay(rq, "publish_drafts", b)
    /\ triggers' = triggers + 1
    /\ UNCHANGED <<incoming, stores, bundle, webhooks, worker, failed, clock>>

publish_drafts_start(w) ==
    /\ At(w, "publish_drafts", 0)
    /\ bundle' = SetStatus(bundle, worker[w].arg, STATUS_PUBLISHING)
    /\ worker' = [worker EXCEPT ![w].pc = 1]
    /\ UNCHANGED <<incoming, stores, webhooks, rq, failed, clock, triggers>>

\* publish_drafts without its except clause: the exception leaves the job
publish_drafts_run_uncaught(w) ==
    /\ At(w, "publish_drafts", 1)
    /\ LET b == worker[w].arg
       IN  \E fault \in PublishFaults(StateOf(b)) :
             \E r \in {_publish_drafts(StateOf(b), fault)} :
                 /\ kb' = r.state.kb
                 /\ s3' = r.state.s3
                 /\ calls' = MutatingCalls(r.effects)
                 /\ report' = r.report
                 /\ IF r.report.kind = None
                    THEN /\ bundle' = [SetStatus(bundle, b, STATUS_PUBLISHED)
                                          EXCEPT ![b].published = @ + 1]
                         /\ rq' = Delay(rq, "process_queue", 0)
                         /\ UNCHANGED failed
                    ELSE /\ failed' = failed \cup {Job("publish_drafts", b)}
                         /\ UNCHANGED <<bundle, rq>>
    /\ worker' = [worker EXCEPT ![w] = Idle]
    /\ UNCHANGED <<incoming, articles, images, webhooks, clock, triggers>>

publish_drafts_run(w) ==
    /\ At(w, "publish_drafts", 1)
    /\ LET b == worker[w].arg
       IN  \E fault \in PublishFaults(StateOf(b)) :
             \E r \in {_publish_drafts(StateOf(b), fault)} :
                 /\ kb' = r.state.kb
                 /\ s3' = r.state.s3
                 /\ calls' = MutatingCalls(r.effects)
                 /\ report' = r.report
                 /\ IF r.report.kind = None
                    THEN /\ bundle' = [SetStatus(bundle, b, STATUS_PUBLISHED)
                                          EXCEPT ![b].published = @ + 1]
                         /\ UNCHANGED failed
                    ELSE /\ bundle' = set_error(bundle, b)
                         /\ failed' = failed \cup {Job("publish_drafts", b)}
                 /\ rq' = Delay(rq, "process_queue", 0)
    /\ worker' = [worker EXCEPT ![w] = Idle]
    /\ UNCHANGED <<incoming, articles, images, webhooks, clock, triggers>>

(***************************************************************************)
(* The specification of the pipeline.                                      *)
(***************************************************************************)
Next ==
    \/ PostWebhook(WebhookBodies)
    \/ TriggerPublish
    \/ \E w \in Workers : Dequeue(w)
    \/ \E w \in Workers : process_webhook(w)
    \/ \E w \in Workers : process_queue_sweep(w)
    \/ \E w \in Workers : process_queue_admit(w)
    \/ \E w \in Workers : process_bundle_start(w)
    \/ \E w \in Workers : process_bundle_run(w)
    \/ \E w \in Workers : publish_drafts_start(w)
    \/ \E w \in Workers : publish_drafts_run(w)

Spec == Init /\ [][Next]_vars

(***************************************************************************)
(* process_webhook on its own: the bundles are in any statuses the         *)
(* pipeline leaves them in, webhooks are posted and processed.             *)
(***************************************************************************)
BundleStatuses == {STATUS_QUEUED, STATUS_PROCESSING, STATUS_DRAFT, STATUS_PUBLISHING,
                   STATUS_PUBLISHED, STATUS_ERROR}

InitWebhook ==
    /\ incoming = [b \in BundlePks |-> {}]
    /\ InitStores
    /\ \E st \in [BundlePks -> BundleStatuses \cup {Absent}] :
          bundle = [b \in BundlePks |->
                      IF st[b] = Absent
                      THEN [status |-> Absent, time_queued |-> 0, runs |-> 0,
                            queued |-> 0, claims |-> 0, published |-> 0]
                      ELSE [status |-> st[b], time_queued |-> b, runs |-> 0,
                            queued |-> 1, claims |-> 0, published |-> 0]]
    /\ webhooks = <<>>
    /\ rq = <<>>
    /\ worker = [w \in Workers |-> Idle]
    /\ failed = {}
    /\ clock = Cardinality(BundlePks)
    /\ triggers = 0

NextWebhook ==
    \/ PostWebhook(WebhookBodies)
    \/ \E w \in Workers : Dequeue(w)
    \/ \E w \in Workers : process_webhook(w)

\* the steps the workers take; the workers of the pool keep taking the jobs
\* of the queue and run each of them to its end
WorkerStep ==
    \E w \in Workers :
        \/ Dequeue(w)
        \/ process_webhook(w)
        \/ process_queue_sweep(w)
        \/ process_queue_admit(w)
        \/ process_bundle_start(w)
        \/ process_bundle_run(w)
        \/ publish_drafts_start(w)
        \/ publish_drafts_run(w)

SpecFair == Spec /\ WF_vars(WorkerStep)

SpecWebhook == InitWebhook /\ [][NextWebhook]_vars

(***************************************************************************)
(* process_bundle on its own: one queued bundle whose process_bundle job   *)
(* a worker has taken, over the archives the authoring tool may serve and  *)
(* the contents the two stores may have.                                   *)
(***************************************************************************)
\* the archives: up to two HTML files
FileA == {HtmlFile("a.html", u, c, i) :
             u \in {"faq", "FAQ"}, c \in {"v1", "v2"},
             i \in {{}, {"d1/logo.png", "d2/Logo.png"}, {"d1/fig.png", "d1/logo.png"}}}
FileB == {HtmlFile("b.html", u, "v1", i) :
             u \in {"faq", "guide"},
             i \in {{}, {"d2/Logo.png"}, {"d1/fig.png"}}}
Archives ==
    {{}} \cup {{a} : a \in FileA} \cup {{b} : b \in FileB}
    \cup {{a, b} : a \in FileA, b \in FileB}

\* the articles: absent, or a draft, an online version or both
ArticleStates(names) ==
    {NoArticle}
    \cup {[url_name |-> u, vers |-> 2, draft |-> v[1], online |-> v[2],
           archived |-> FALSE] :
            u \in names,
            v \in {<<Version(2, "v1"), NoVersion>>,
                   <<NoVersion, Version(1, "v1")>>,
                   <<Version(2, "v1"), Version(1, "v1")>>}}

KbStates ==
    {[k \in Slugs |-> IF k = "faq" THEN f ELSE g] :
        f \in ArticleStates({"faq", "FAQ"}), g \in ArticleStates({"guide"})}

S3States ==
    {{}, {ProductionKey("Logo.png")},
     {ProductionKey("fig.png"), DraftKey("logo.png")},
     {ProductionKey("Logo.png"), ProductionKey("fig.png"), DraftKey("fig.png")}}

InitProcess ==
    /\ \E files \in Archives : incoming = [b \in BundlePks |-> IF b = 1 THEN files ELSE {}]
    /\ kb \in KbStates
    /\ s3 \in S3States
    /\ articles = [b \in BundlePks |-> {}]
    /\ images = [b \in BundlePks |-> {}]
    /\ calls = <<>>
    /\ report = NoReport
    /\ bundle = [b \in BundlePks |->
                   IF b = 1
                   THEN [status |-> STATUS_QUEUED, time_queued |-> 1, runs |-> 0,
                         queued |-> 1, claims |-> 0, published |-> 0]
                   ELSE [status |-> Absent, time_queued |-> 0, runs |-> 0,
                         queued |-> 0, claims |-> 0, published |-> 0]]
    /\ webhooks = <<[body |-> Payload(EventComplete, "success", 1, TRUE),
                     status |-> STATUS_ACCEPTED, bundle |-> 1]>>
    /\ rq = <<>>
    /\ worker = [w \in Workers |->
                   IF w = "w1" THEN Running(Job("process_bundle", 1), 0) ELSE Idle]
    /\ failed = {}
    /\ clock = 1
    /\ triggers = 0

NextProcess ==
    \/ \E w \in Workers : process_bundle_start(w)
    \/ \E w \in Workers : process_bundle_run(w)

SpecProcess == InitProcess /\ [][NextProcess]_vars

(***************************************************************************)
(* publish_drafts on its own: a bundle whose first processing run ended    *)
(* DRAFT, over the same archives and store contents; the publish view is   *)
(* used up to MaxTriggers times, and the process_queue jobs that the       *)
(* publish runs enqueue are run.                                           *)
(***************************************************************************)
\* the result of a processing run in which no call fails
ProcessedWithoutFault(S, files) ==
    _process_bundle(S, files, 1, Len(Plan(S, files, 1)) + 1)

InitPublish ==
    /\ \E files \in Archives, store \in KbStates, keys \in S3States :
          \E r \in {ProcessedWithoutFault(State(store, keys, {}, {}), files)} :
             /\ r.report.kind = None
             /\ incoming = [b \in BundlePks |-> IF b = 1 THEN files ELSE {}]
             /\ kb = r.state.kb
             /\ s3 = r.state.s3
             /\ articles = [b \in BundlePks |-> IF b = 1 THEN r.state.arts ELSE {}]
             /\ images = [b \in BundlePks |-> IF b = 1 THEN r.state.imgs ELSE {}]
             /\ calls = MutatingCalls(r.effects)
             /\ report = r.report
    /\ bundle = [b \in BundlePks |->
                   IF b = 1
                   THEN [status |-> STATUS_DRAFT, time_queued |-> 1, runs |-> 1,
                         queued |-> 1, claims |-> 1, published |-> 0]
                   ELSE [status |-> Absent, time_queued |-> 0, runs |-> 0,
                         queued |-> 0, claims |-> 0, published |-> 0]]
    /\ webhooks = <<[body |-> Payload(EventComplete, "success", 1, TRUE),
                     status |-> STATUS_ACCEPTED, bundle |-> 1]>>
    /\ rq = <<>>
    /\ worker = [w \in Workers |-> Idle]
    /\ failed = {}
    /\ clock = 1
    /\ triggers = 0

NextPublish ==
    \/ TriggerPublish
    \/ \E w \in Workers : Dequeue(w)
    \/ \E w \in Workers : publish_drafts_start(w)
    \/ \E w \in Workers : publish_drafts_run(w)
    \/ \E w \in Workers : process_queue_sweep(w)
    \/ \E w \in Workers : process_queue_admit(w)

SpecPublish == InitPublish /\ [][NextPublish]_vars

(***************************************************************************)
(* Properties of the bundle lifecycle.                                     *)
(***************************************************************************)
Active == {b \in BundlePks : bundle[b].status \in ActiveStatuses}

\* C1: in every reachable state at most one Bundle is PROCESSING, DRAFT or
\* PUBLISHING (the single-flight invariant).
C1_SingleFlight == Cardinality(Active) <= 1

\* C2: each time a bundle is queued, at most one process_bundle run claims
\* it (moves it to PROCESSING): a later admission of the same queued bundle
\* is aborted by a re-check.
C2_OneClaimPerQueueing ==
    \A b \in BundlePks : bundle[b].claims <= bundle[b].queued

\* the status changes of the lifecycle
Lifecycle(old, new) ==
    CASE new = STATUS_PROCESSING -> old = STATUS_QUEUED
      [] new = STATUS_DRAFT -> old = STATUS_PROCESSING
      [] new = STATUS_PUBLISHING -> old = STATUS_DRAFT
      [] new = STATUS_PUBLISHED -> old = STATUS_PUBLISHING
      [] new = STATUS_ERROR -> old \in {STATUS_PROCESSING, STATUS_PUBLISHING}
      [] new = STATUS_QUEUED -> old \in {Absent, STATUS_PUBLISHED, STATUS_ERROR}
      [] OTHER -> FALSE

\* C3: every change of a Bundle's status is a step of the lifecycle
\* QUEUED -> PROCESSING -> DRAFT -> PUBLISHING -> PUBLISHED, with ERROR from
\* PROCESSING or PUBLISHING and QUEUED from creation, PUBLISHED or ERROR.
C3_LifecycleSteps ==
    [][\A b \in BundlePks :
          bundle'[b].status # bundle[b].status
             => Lifecycle(bundle[b].status, bundle'[b].status)]_vars

(***************************************************************************)
(* Properties of process_webhook.                                          *)
(***************************************************************************)
\* worker w takes the step that ends job f, which was at pc
Ends(w, f, pc) == At(w, f, pc) /\ worker'[w] = Idle

\* process_webhook has run to its end for webhook pk, or has raised
Processed(pk) ==
    /\ \A i \in 1..Len(rq) : rq[i] # Job("process_webhook", pk)
    /\ \A w \in Workers : ~(worker[w].fn = "process_webhook" /\ worker[w].arg = pk)

InFlight == {STATUS_QUEUED, STATUS_PROCESSING, STATUS_DRAFT, STATUS_PUBLISHING}

\* C4: process_webhook marks a webhook ACCEPTED if and only if the event is
\* publish-complete, the outcome is success, and the Bundle of the source id
\* did not exist or is PUBLISHED or ERROR; an accepted webhook queues that
\* Bundle and enqueues process_queue; a webhook for a source id whose Bundle
\* is QUEUED, PROCESSING, DRAFT or PUBLISHING is REJECTED.
C4_AcceptedIff ==
    [][\A w \in Workers :
          Ends(w, "process_webhook", 0) =>
             LET pk == worker[w].arg
                 data == webhooks[pk].body
                 accepted == webhooks'[pk].status = STATUS_ACCEPTED
             IN  /\ accepted <=>
                      /\ data.event_id = EventComplete
                      /\ data.result = "success"
                      /\ data.uuid # 0
                      /\ bundle[data.uuid].status
                            \in {Absent, STATUS_PUBLISHED, STATUS_ERROR}
                 /\ accepted =>
                      /\ bundle'[data.uuid].status = STATUS_QUEUED
                      /\ rq' = Append(rq, Job("process_queue", 0))
                 /\ (data.uuid # 0 /\ bundle[data.uuid].status \in InFlight)
                      => webhooks'[pk].status = STATUS_REJECTED]_vars

\* C5: a webhook whose payload lacks the event-type field or the outcome
\* field is resolved as REJECTED, and process_webhook does not end in an
\* unhandled error for it.
C5_MalformedRejected ==
    \A pk \in 1..Len(webhooks) :
        (/\ Processed(pk)
         /\ \/ webhooks[pk].body.event_id = "absent"
            \/ webhooks[pk].body.result = "absent")
        => /\ webhooks[pk].status = STATUS_REJECTED
           /\ Job("process_webhook", pk) \notin failed

\* C6: a rejected webhook leaves the set of Bundles and every Bundle's
\* status unchanged and enqueues no process_queue: only its Webhook record
\* changes.
C6_RejectedChangesNothing ==
    [][\A w \in Workers :
          (Ends(w, "process_webhook", 0)
           /\ webhooks'[worker[w].arg].status = STATUS_REJECTED)
          => /\ bundle' = bundle
             /\ rq' = rq
             /\ webhooks' = [webhooks EXCEPT ![worker[w].arg] = webhooks'[worker[w].arg]]
             /\ UNCHANGED <<incoming, stores, failed>>]_vars

\* a webhook was rejected as a duplicate of a bundle in flight
C6_Witness ==
    \E pk \in 1..Len(webhooks) :
        /\ webhooks[pk].status = STATUS_REJECTED
        /\ webhooks[pk].bundle # 0
        /\ bundle[webhooks[pk].bundle].status \in InFlight

(***************************************************************************)
(* Properties of process_bundle and process_article.                       *)
(***************************************************************************)
\* the slugs two incoming documents share, the basenames two images share
CollidingSlugs(files) ==
    {Lower(f.url_name) : f \in {x \in files :
        \E g \in files : g.path # x.path /\ Lower(g.url_name) = Lower(x.url_name)}}
CollidingBasenames(files) ==
    {Lower(Basename(i)) : i \in {x \in AllImages(files) :
        \E j \in AllImages(files) : j # x /\ Lower(Basename(j)) = Lower(Basename(x))}}

HasDuplicates(files) == CollidingSlugs(files) # {} \/ CollidingBasenames(files) # {}

\* C7: if two incoming documents have the same lower-cased slug, or two
\* referenced images the same lower-cased basename, process_bundle ends with
\* the Bundle in ERROR, no Article or Image row created and no mutating call
\* made to the article store or the object store.
C7_DuplicatesAbort ==
    [][\A w \in Workers :
          (Ends(w, "process_bundle", 1) /\ HasDuplicates(incoming[worker[w].arg]))
          => /\ bundle'[worker[w].arg].status = STATUS_ERROR
             /\ articles' = articles
             /\ images' = images
             /\ calls' = <<>>
             /\ kb' = kb
             /\ s3' = s3]_vars

\* a run has raised the report of duplicate images
C7_Witness ==
    /\ bundle[1].runs = 1
    /\ bundle[1].status = STATUS_ERROR
    /\ CollidingBasenames(incoming[1]) # {}
    /\ report.kind = "image"

ReportNames == {report.entries[i].name : i \in 1..Len(report.entries)}

\* C8: the conflict report lists every slug and every image basename with
\* more than one source path, and only those, in sorted order: slug and
\* image collisions come in one report, names with one path are left out.
C8_ReportIsComplete ==
    report.kind \in {"url_name", "image"}
    => /\ ReportNames = CollidingSlugs(incoming[1]) \cup CollidingBasenames(incoming[1])
       /\ \A i, j \in 1..Len(report.entries) :
             i < j => Rank(report.entries[i].name) < Rank(report.entries[j].name)

\* the run of process_bundle by w made every call of its plan
CleanRun(w) == Ends(w, "process_bundle", 1) /\ report'.kind \in {None, "nothing_changed"}

\* the mutating article-store calls the step made for slug k, by name
OpsFor(k) ==
    LET cs == SelectSeq(calls', LAMBDA e : e.slug = k)
    IN  [i \in 1..Len(cs) |-> cs[i].op]

\* the NEW and CHANGED rows the step created for slug k in bundle b
StagedRowsFor(b, k) ==
    {a \in articles'[b] \ articles[b] : a.ka_id = k /\ a.status # "deleted"}

RowOf(b, f, kav, status) ==
    [run |-> bundle[b].runs + 1, url_name |-> f.url_name, ka_id |-> Lower(f.url_name),
     kav_id |-> kav, status |-> status]

\* the row of the decision table for document f of bundle b
DecisionTable(b, f) ==
    LET k == Lower(f.url_name)
        draft == kb[k].draft
        online == kb[k].online
        fresh == kb[k].vers + 1
    IN  CASE draft # NoVersion /\ online # NoVersion ->
                /\ OpsFor(k) = <<"update_draft">>
                /\ kb'[k].draft = Version(draft.id, f.body)
                /\ StagedRowsFor(b, k) = {RowOf(b, f, draft.id, "changed")}
          [] draft # NoVersion /\ online = NoVersion ->
                /\ OpsFor(k) = <<"update_draft">>
                /\ kb'[k].draft = Version(draft.id, f.body)
                /\ StagedRowsFor(b, k) = {RowOf(b, f, draft.id, "new")}
          [] draft = NoVersion /\ online # NoVersion /\ f.body = online.body ->
                /\ OpsFor(k) = <<>>
                /\ kb'[k] = kb[k]
                /\ StagedRowsFor(b, k) = {}
          [] draft = NoVersion /\ online # NoVersion /\ f.body # online.body ->
                /\ OpsFor(k) = <<"create_draft", "update_draft">>
                /\ kb'[k].draft = Version(fresh, f.body)
                /\ kb'[k].online = online
                /\ StagedRowsFor(b, k) = {RowOf(b, f, fresh, "changed")}
          [] draft = NoVersion /\ online = NoVersion ->
                /\ OpsFor(k) = <<"create_article">>
                /\ kb'[k].draft = Version(fresh, f.body)
                /\ kb'[k].online = NoVersion
                /\ StagedRowsFor(b, k) = {RowOf(b, f, fresh, "new")}

\* C9: for each incoming document process_article follows the decision
\* table on (draft exists, online exists, content identical): draft and
\* online: draft updated, CHANGED; draft only: draft updated, NEW; online
\* only and identical: no mutation, no row; online only and different:
\* draft copy created and updated, CHANGED; neither: new draft, NEW.
C9_DecisionTable ==
    [][\A w \in Workers :
          CleanRun(w) =>
             \A f \in incoming[worker[w].arg] : DecisionTable(worker[w].arg, f)]_vars

\* a run created a draft copy of a published article and recorded CHANGED
C9_Witness ==
    /\ report.kind = None
    /\ bundle[1].status = STATUS_DRAFT
    /\ \E i \in 1..Len(calls) : calls[i].op = "create_draft"
    /\ \E a \in articles[1] : a.status = "changed"

\* the step created no row and no draft for the slug of document f
NoChurn(b, f) ==
    /\ StagedRowsFor(b, Lower(f.url_name)) = {}
    /\ OpsFor(Lower(f.url_name)) = <<>>

\* C10: if the online record's compared fields all equal the incoming
\* document's, processing creates no Article row for that slug and creates
\* or updates no draft.
C10_UnchangedIsNoOp ==
    [][\A w \in Workers :
          Ends(w, "process_bundle", 1) =>
             \A f \in incoming[worker[w].arg] :
                 LET online == kb[Lower(f.url_name)].online
                 IN  (online # NoVersion /\ f.body = online.body)
                        => NoChurn(worker[w].arg, f)]_vars

\* C10 as amended: the same, for a slug that has no draft version.
C10_UnchangedWithoutDraftIsNoOp ==
    [][\A w \in Workers :
          Ends(w, "process_bundle", 1) =>
             \A f \in incoming[worker[w].arg] :
                 LET online == kb[Lower(f.url_name)].online
                     draft == kb[Lower(f.url_name)].draft
                 IN  (online # NoVersion /\ f.body = online.body /\ draft = NoVersion)
                        => NoChurn(worker[w].arg, f)]_vars

\* a bundle whose documents all equal their online versions was processed
C10_Witness ==
    /\ bundle[1].runs = 1
    /\ report.kind = "nothing_changed"
    /\ incoming[1] # {}
    /\ \A f \in incoming[1] :
          /\ kb[Lower(f.url_name)].online.body = f.body
          /\ kb[Lower(f.url_name)].draft = NoVersion

(***************************************************************************)
(* Properties of the rows a processing run records.                        *)
(***************************************************************************)
\* the run of process_bundle by w got past lines 104-150: every row of the
\* run is made
PastStaging(w) ==
    Ends(w, "process_bundle", 1) /\ report'.kind \in {None, "nothing_changed", "KeyError"}

\* the online articles no incoming document of bundle b matches
UnmatchedOnline(b) ==
    {k \in Slugs : /\ kb[k].online # NoVersion
                   /\ \A f \in incoming[b] : Lower(f.url_name) # Lower(kb[k].url_name)}

\* C11: a processing run that passes duplicate detection records a DELETED
\* Article row for exactly the online articles whose slug, lower-cased, is
\* the slug of no incoming document; it makes no article-store call for
\* them and leaves them as they are.
C11_DeletedArticles ==
    [][\A w \in Workers :
          PastStaging(w) =>
             LET b == worker[w].arg
             IN  /\ {a \in articles'[b] \ articles[b] : a.status = "deleted"}
                      = {[run |-> bundle[b].runs + 1, url_name |-> kb[k].url_name,
                          ka_id |-> k, kav_id |-> kb[k].online.id,
                          status |-> "deleted"] : k \in UnmatchedOnline(b)}
                 /\ \A k \in UnmatchedOnline(b) : kb'[k] = kb[k] /\ OpsFor(k) = <<>>]_vars

\* a run has recorded a DELETED row next to a staged document
C11_Witness ==
    /\ report.kind = None
    /\ bundle[1].status = STATUS_DRAFT
    /\ \E a \in articles[1] : a.status = "deleted" /\ kb[a.ka_id].online.id = a.kav_id
    /\ \E a \in articles[1] : a.status \in {"new", "changed"}

\* the production keys no incoming image of bundle b is named like
UnmatchedKeys(b) ==
    {k \in s3 : /\ ~k.draft
                /\ \A i \in AllImages(incoming[b]) : Lower(Basename(i)) # Lower(k.name)}

\* C12: a processing run that passes duplicate detection records a DELETED
\* Image row for exactly the keys outside the draft prefix that match,
\* lower-cased, no incoming image basename; no run records a DELETED row for
\* a key under the draft prefix, and no run deletes an object.
C12_DeletedImages ==
    [][\A w \in Workers :
          Ends(w, "process_bundle", 1) =>
             LET b == worker[w].arg
                 gone == {i \in images'[b] \ images[b] : i.status = "deleted"}
             IN  /\ PastStaging(w) =>
                        gone = {[run |-> bundle[b].runs + 1, filename |-> k.name,
                                 status |-> "deleted"] : k \in UnmatchedKeys(b)}
                 /\ \A i \in gone : ProductionKey(i.filename) \in s3
                 /\ s3 \subseteq s3']_vars

\* a run has recorded a DELETED row while a draft key of another name exists
C12_Witness ==
    /\ bundle[1].runs = 1
    /\ report.kind = None
    /\ \E i \in images[1] : i.status = "deleted"
    /\ \E k \in s3 : k.draft /\ ProductionKey(k.name) \notin s3
                      /\ \A i \in images[1] : i.filename # k.name

\* C13: a processing run that makes every call and leaves the Bundle with
\* no Article and no Image row ends with the Bundle in ERROR, raising the
\* nothing-changed error, and has made no mutating store call; a run that
\* ends with the Bundle in DRAFT leaves it at least one row.
C13_NothingChanged ==
    [][\A w \in Workers :
          Ends(w, "process_bundle", 1) =>
             LET b == worker[w].arg
                 empty == articles'[b] = {} /\ images'[b] = {}
             IN  /\ (empty /\ report'.kind \notin {"fault", "url_name", "image"})
                        => /\ bundle'[b].status = STATUS_ERROR
                           /\ report'.kind = "nothing_changed"
                           /\ calls' = <<>>
                           /\ kb' = kb /\ s3' = s3
                 /\ bundle'[b].status = STATUS_DRAFT => ~empty]_vars

\* a run over an empty archive, with nothing online, raised nothing-changed
C13_Witness ==
    /\ bundle[1].runs = 1
    /\ bundle[1].status = STATUS_ERROR
    /\ report.kind = "nothing_changed"
    /\ articles[1] = {} /\ images[1] = {}

(***************************************************************************)
(* Properties of publish_drafts.                                           *)
(***************************************************************************)
\* the step group of a store call of _publish_drafts
PublishGroup(op) ==
    CASE op = "publish_draft" -> 1
      [] op = "copy_to_production" -> 2
      [] op \in {"delete_draft", "archive"} -> 3
      [] op = "delete_image" -> 4

\* how many of the calls cs are of operation op
CountOps(cs, op) == Len(SelectSeq(cs, LAMBDA e : e.op = op))

\* the rows of bundle b each step group works on
GroupRows(b, g) ==
    CASE g = 1 -> {a \in articles[b] : a.status \in {"new", "changed"}}
      [] g = 2 -> {i \in images[b] : i.status \in {"new", "changed"}}
      [] g = 3 -> {a \in articles[b] : a.status = "deleted"}
      [] g = 4 -> {i \in images[b] : i.status = "deleted"}

GroupOp(g) ==
    CASE g = 1 -> "publish_draft"
      [] g = 2 -> "copy_to_production"
      [] g = 3 -> "archive"
      [] g = 4 -> "delete_image"

\* the calls cs handle every row of step group g of bundle b
GroupDone(b, g, cs) == CountOps(cs, GroupOp(g)) = Cardinality(GroupRows(b, g))

\* C14: the store calls of one publish run come in the order of the four
\* step groups, and a call of a group is made only when every row of each
\* earlier group has been handled: all NEW/CHANGED articles are published
\* before an image is copied, all copies are made before an article is
\* archived, all archivals are made before an image is deleted.
C14_StepGroupsInOrder ==
    [][\A w \in Workers :
          Ends(w, "publish_drafts", 1) =>
             /\ \A i, j \in 1..Len(calls') :
                    i < j => PublishGroup(calls'[i].op) <= PublishGroup(calls'[j].op)
             /\ \A i \in 1..Len(calls') : \A g \in 1..3 :
                    g < PublishGroup(calls'[i].op) => GroupDone(worker[w].arg, g, calls')]_vars

\* a publish run has made calls of all four groups
C14_Witness ==
    /\ bundle[1].status = STATUS_PUBLISHED
    /\ \A g \in 1..4 : \E i \in 1..Len(calls) : PublishGroup(calls[i].op) = g

\* the calls cs handle every row of bundle b
AllStepsMade(b, cs) == \A g \in 1..4 : GroupDone(b, g, cs)

\* C15: when a store call of a publish run fails, no call of a later step
\* follows, the Bundle ends in ERROR and not PUBLISHED with the error
\* raised, the mutations made before the failure stay as they are, and
\* process_queue is enqueued; the Bundle ends PUBLISHED only when every
\* step was made.
C15_PublishFailureAborts ==
    [][\A w \in Workers :
          Ends(w, "publish_drafts", 1) =>
             LET b == worker[w].arg
                 made == AllStepsMade(b, calls')
             IN  /\ bundle'[b].status = IF made THEN STATUS_PUBLISHED ELSE STATUS_ERROR
                 /\ rq' = Append(rq, Job("process_queue", 0))
                 /\ kb' = ApplyEffects(StateOf(b), calls', 0).kb
                 /\ s3' = ApplyEffects(StateOf(b), calls', 0).s3
                 /\ ~made => /\ report'.kind # None
                             /\ Job("publish_drafts", b) \in failed'
                             /\ \A g \in 1..3 :
                                   ~GroupDone(b, g, calls') =>
                                      \A i \in 1..Len(calls') :
                                         PublishGroup(calls'[i].op) <= g]_vars

\* a publish run failed after it had made a call
C15_Witness ==
    /\ bundle[1].status = STATUS_ERROR
    /\ Job("publish_drafts", 1) \in failed
    /\ report.kind \in {"fault", "SalesforceError", "ClientError"}
    /\ calls # <<>>
    /\ ~AllStepsMade(1, calls)

\* C16: a publish run on a Bundle that has already been PUBLISHED makes no
\* mutating call to the article store or the object store.
C16_RepublishIsNoOp ==
    [][\A w \in Workers :
          (Ends(w, "publish_drafts", 1) /\ bundle[worker[w].arg].published > 0)
          => calls' = <<>>]_vars

(***************************************************************************)
(* Properties of failures and of the queue.                                *)
(***************************************************************************)
\* C17: a failure raised while a Bundle is processed or published, the
\* timeout of the job included, leaves the Bundle in ERROR, not PROCESSING
\* or PUBLISHING, with the exception raised out of the job, and enqueues
\* process_queue.
C17_FailureEndsInError ==
    [][\A w \in Workers :
          ((Ends(w, "process_bundle", 1) \/ Ends(w, "publish_drafts", 1))
           /\ report'.kind # None)
          => /\ bundle'[worker[w].arg].status = STATUS_ERROR
             /\ rq' = Append(rq, Job("process_queue", 0))
             /\ Job(worker[w].fn, worker[w].arg) \in failed']_vars

\* both a processing run and a publish run have failed
C17_Witness ==
    /\ Job("process_bundle", 2) \in failed
    /\ Job("publish_drafts", 1) \in failed
    /\ bundle[1].status = STATUS_ERROR
    /\ bundle[2].status = STATUS_ERROR

\* no bundle is active, b is queued and is the earliest queued, and some
\* bundle has ended PUBLISHED or ERROR
Admissible(b) ==
    /\ Active = {}
    /\ bundle[b].status = STATUS_QUEUED
    /\ b = Earliest(bundle)
    /\ \E c \in BundlePks : is_complete(bundle[c].status)

\* C18: when the workers keep running the enqueued jobs: once the active
\* Bundle has ended PUBLISHED or ERROR while Bundles are QUEUED, the
\* earliest-queued of them enters PROCESSING.
C18_QueueNeverStalls ==
    \A b \in BundlePks : Admissible(b) ~> (bundle[b].status = STATUS_PROCESSING)

\* what does hold under the same scheduling: the earliest-queued Bundle
\* enters PROCESSING unless some Bundle has come to wait in DRAFT
QueueStallsOnlyBehindDraft ==
    \A b \in BundlePks :
        Admissible(b) ~> (\/ bundle[b].status = STATUS_PROCESSING
                          \/ \E c \in BundlePks : bundle[c].status = STATUS_DRAFT)

\* C19: a Bundle in ERROR keeps that status until a webhook for it is
\* accepted, which queues it: no job that is already enqueued or that the
\* pipeline triggers moves it out of ERROR.
C19_ErrorIsNotRetried ==
    [][\A b \in BundlePks :
          (bundle[b].status = STATUS_ERROR /\ bundle'[b].status # STATUS_ERROR)
          => /\ bundle'[b].status = STATUS_QUEUED
             /\ \E w \in Workers :
                   /\ Ends(w, "process_webhook", 0)
                   /\ webhooks'[worker[w].arg].status = STATUS_ACCEPTED
                   /\ webhooks'[worker[w].arg].bundle = b]_vars

\* C20: the Article rows a processing run creates, NEW, CHANGED and DELETED
\* together, have pairwise distinct lower-cased url_names.
C20_RunSlugsDistinct ==
    [][\A w \in Workers :
          Ends(w, "process_bundle", 1) =>
             \A a1, a2 \in articles'[worker[w].arg] \ articles[worker[w].arg] :
                 Lower(a1.url_name) = Lower(a2.url_name) => a1 = a2]_vars

\* a run over an archive with an upper-case URL name has recorded rows for
\* two articles
C20_Witness ==
    /\ bundle[1].runs = 1
    /\ \E f \in incoming[1] : f.url_name = "FAQ"
    /\ \E a1, a2 \in articles[1] : Lower(a1.url_name) # Lower(a2.url_name)

(***************************************************************************)
(* Properties of the sweep, of archiving and of the staged images.         *)
(***************************************************************************)
\* C21: every process_queue pass first deletes every key under the draft
\* prefix, whatever the statuses of the Bundles are and before the pass
\* reads them or dispatches a job; the sweep leaves the other keys and
\* every Bundle as they are, and the rest of the pass deletes nothing.
C21_SweepOnEveryPass ==
    [][\A w \in Workers :
          /\ (At(w, "process_queue", 0) /\ worker'[w] # worker[w])
             => /\ worker'[w] = [worker[w] EXCEPT !.pc = 1]
                /\ {k \in s3' : k.draft} = {}
                /\ {k \in s3' : ~k.draft} = {k \in s3 : ~k.draft}
                /\ bundle' = bundle
                /\ rq' = rq
          /\ (At(w, "process_queue", 1) /\ worker'[w] # worker[w])
             => /\ worker'[w] = Idle
                /\ s3' = s3
                /\ bundle' = bundle]_vars

\* a pass has just swept a draft key while a bundle waits in DRAFT
C21_Witness ==
    /\ \E w \in Workers : At(w, "process_queue", 1)
    /\ calls # <<>> /\ calls[1].op = "delete_draft_image"
    /\ \E b \in BundlePks : bundle[b].status = STATUS_DRAFT
    /\ \E k \in s3 : ~k.draft

\* C22: in a publish run, the archiving of a DELETED article that has a
\* draft copy deletes that draft in the call just before the one that sets
\* the online version archived; a draft deletion is followed by that
\* archiving or by nothing, the run having failed with the version still
\* online; without a draft copy no draft is deleted, and a completed
\* archiving changes nothing of the article but its draft and online
\* versions.
C22_ArchiveDeletesDraftFirst ==
    [][\A w \in Workers :
          Ends(w, "publish_drafts", 1) =>
            /\ \A i \in 1..Len(calls') :
                  /\ calls'[i].op = "archive" =>
                        IF kb[calls'[i].slug].draft # NoVersion
                        THEN /\ i > 1
                             /\ calls'[i-1].op = "delete_draft"
                             /\ calls'[i-1].slug = calls'[i].slug
                             /\ calls'[i-1].id = kb[calls'[i].slug].draft.id
                        ELSE \A j \in 1..Len(calls') :
                                ~(calls'[j].op = "delete_draft"
                                  /\ calls'[j].slug = calls'[i].slug)
                  /\ calls'[i].op = "delete_draft" =>
                        /\ kb[calls'[i].slug].draft # NoVersion
                        /\ kb'[calls'[i].slug].draft = NoVersion
                        /\ IF i < Len(calls')
                           THEN /\ calls'[i+1].op = "archive"
                                /\ calls'[i+1].slug = calls'[i].slug
                           ELSE /\ report'.kind # None
                                /\ kb'[calls'[i].slug].online = kb[calls'[i].slug].online
            /\ \A k \in Slugs :
                  IF \E i \in 1..Len(calls') :
                        calls'[i].op = "archive" /\ calls'[i].slug = k
                  THEN kb'[k] = [kb[k] EXCEPT !.draft = NoVersion,
                                             !.online = NoVersion,
                                             !.archived = TRUE]
                  ELSE kb'[k].archived = kb[k].archived]_vars

\* a bundle was published whose run deleted the draft copy of an article
\* and then archived it
C22_Witness ==
    /\ bundle[1].status = STATUS_PUBLISHED
    /\ \E i \in 1..(Len(calls) - 1) :
          /\ calls[i].op = "delete_draft"
          /\ calls[i+1].op = "archive"
          /\ calls[i+1].slug = calls[i].slug
          /\ kb[calls[i].slug].archived

\* a bundle was published whose run archived an article that had no draft
\* copy
C22_WitnessNoDraft ==
    /\ bundle[1].status = STATUS_PUBLISHED
    /\ \E i \in 1..Len(calls) : calls[i].op = "archive"
    /\ \A i \in 1..Len(calls) : calls[i].op # "delete_draft"

\* the keys under the draft prefix of the images that the NEW and CHANGED
\* articles of bundle b show: staged by process_image or as unchanged
\* images
PreviewKeys(b) ==
    {DraftKey(Basename(i)) :
        i \in UNION {article_image_map(incoming[b])[a.url_name] :
                        a \in {x \in articles[b] :
                                /\ x.status \in {"new", "changed"}
                                /\ x.url_name \in DOMAIN article_image_map(incoming[b])}}}

\* C23: while a Bundle stays in DRAFT, the objects staged under the draft
\* prefix for the images of its NEW and CHANGED articles stay in the object
\* store, whatever webhooks and process_queue passes run meanwhile.
C23_StagedImagesStay ==
    [][\A b \in BundlePks :
          (bundle[b].status = STATUS_DRAFT /\ bundle'[b].status = STATUS_DRAFT)
          => \A k \in PreviewKeys(b) : k \in s3 => k \in s3']_vars

====
